---- MODULE Spec2Model ----
(***************************************************************************)
(* Model of the auction state engine of the fish-auction marketplace       *)
(* (src/lib/auction-utils.ts): activity window, bid validation, winner     *)
(* resolution, closure and bid insertion, together with the callers that   *)
(* hold an AuctionState, submit bids against it and persist the results.   *)
(*                                                                         *)
(* Amounts.  The engine takes bid amounts as JavaScript numbers, so a      *)
(* caller can hand it a fractional amount of centavos; validateBid is the  *)
(* place that refuses those.  An amount is modelled as an integer count of *)
(* 1/Denom centavo: the amount is a whole number of centavos iff it is a   *)
(* multiple of Denom.  The money fields of an AuctionState are whole       *)
(* centavos.  Instants are integers (milliseconds in the code).            *)
(***************************************************************************)
EXTENDS Integers, Sequences, FiniteSets, TLC

VARIABLES
    auction,        \* the AuctionState the caller holds (what is persisted)
    now,            \* the clock read by `new Date()`
    out,            \* the last call into the engine and what it returned
    closedByClose,  \* history: a successful closeAuction has been persisted
    calls           \* unserialized callers: their snapshot, bid and progress

vars == <<auction, now, out, closedByClose, calls>>

-----------------------------------------------------------------------------
(* Bounds of the model *)

Denom == 2            \* sub-units per centavo in the amounts a caller can pass
MaxTime == 2          \* startTime and endTime range over 0..MaxTime
MaxCents == 1         \* minimumBidCents and currentHighestBidCents of a fixture
MaxIncrement == 2     \* bidIncrementCents ranges over 1..MaxIncrement
MaxBidCents == 3      \* bid amounts offered range up to MaxBidCents centavos
MaxFixtureBids == 2   \* length of a hand-built bid list
MaxFixtureTotal == 1  \* totalBids of a hand-built AuctionState

-----------------------------------------------------------------------------
(* Values *)

Cents(c) == c * Denom

Times == 0 .. (MaxTime + 1)

\* Amounts a caller can pass as bidAmountCents: negative, zero, fractional, whole.
BidAmounts == (0 - Denom) .. Cents(MaxBidCents)

Buyers == {"buyer-1", "buyer-2"}

LotId == "lot-1"

NoBid == [id |-> 0, lotId |-> "", buyerId |-> "", bidAmountCents |-> 0, timestamp |-> 0]

NoAmount == <<>>

Max(a, b) == IF a >= b THEN a ELSE b

\* Number.isInteger on an amount
IsInteger(a) == a % Denom = 0

\* (cents / 100).toFixed(2) of a whole, non-negative number of centavos:
\* the pesos and the two decimals that the message shows.
ToFixed2(a) == <<(a \div Denom) \div 100, (a \div Denom) % 100>>

-----------------------------------------------------------------------------
(* src/lib/auction-utils.ts *)

\* isAuctionActive taking the end instant as already over.
isAuctionActiveBeforeEnd(a, t) ==
    /\ a.status = "open"
    /\ t >= a.startTime
    /\ t < a.endTime

isAuctionActive(a, t) ==
    /\ a.status = "open"
    /\ t >= a.startTime
    /\ t <= a.endTime

hasAuctionEnded(a, t) == t > a.endTime

canStartAuction(a, t) ==
    /\ a.status = "closed"
    /\ t >= a.startTime

Accepted == [success |-> TRUE, error |-> "", atLeast |-> NoAmount]

Rejected(msg, amt) == [success |-> FALSE, error |-> msg, atLeast |-> amt]

requiredMinimum(a) == a.currentHighestBidCents + a.bidIncrementCents

\* validateBid refusing a bid of exactly the required minimum.
validateBidStrictIncrement(a, t, bidAmountCents) ==
    IF ~isAuctionActive(a, t)
    THEN Rejected("Auction is not currently active", NoAmount)
    ELSE IF bidAmountCents < a.minimumBidCents
    THEN Rejected("Bid must be at least $", ToFixed2(a.minimumBidCents))
    ELSE IF bidAmountCents <= requiredMinimum(a)
    THEN Rejected("Bid must be at least $ (current high + increment)",
                  ToFixed2(requiredMinimum(a)))
    ELSE IF ~IsInteger(bidAmountCents) \/ bidAmountCents <= 0
    THEN Rejected("Invalid bid amount", NoAmount)
    ELSE Accepted

\* validateBid checking the increment before the minimum.
validateBidIncrementFirst(a, t, bidAmountCents) ==
    IF ~isAuctionActive(a, t)
    THEN Rejected("Auction is not currently active", NoAmount)
    ELSE IF bidAmountCents < requiredMinimum(a)
    THEN Rejected("Bid must be at least $ (current high + increment)",
                  ToFixed2(requiredMinimum(a)))
    ELSE IF bidAmountCents < a.minimumBidCents
    THEN Rejected("Bid must be at least $", ToFixed2(a.minimumBidCents))
    ELSE IF ~IsInteger(bidAmountCents) \/ bidAmountCents <= 0
    THEN Rejected("Invalid bid amount", NoAmount)
    ELSE Accepted

\* validateBid without the increment check.
validateBidNoIncrement(a, t, bidAmountCents) ==
    IF ~isAuctionActive(a, t)
    THEN Rejected("Auction is not currently active", NoAmount)
    ELSE IF bidAmountCents < a.minimumBidCents
    THEN Rejected("Bid must be at least $", ToFixed2(a.minimumBidCents))
    ELSE IF ~IsInteger(bidAmountCents) \/ bidAmountCents <= 0
    THEN Rejected("Invalid bid amount", NoAmount)
    ELSE Accepted

validateBid(a, t, bidAmountCents) ==
    IF ~isAuctionActive(a, t)
    THEN Rejected("Auction is not currently active", NoAmount)
    ELSE IF bidAmountCents < a.minimumBidCents
    THEN Rejected("Bid must be at least $", ToFixed2(a.minimumBidCents))
    ELSE IF bidAmountCents < requiredMinimum(a)
    THEN Rejected("Bid must be at least $ (current high + increment)",
                  ToFixed2(requiredMinimum(a)))
    ELSE IF ~IsInteger(bidAmountCents) \/ bidAmountCents <= 0
    THEN Rejected("Invalid bid amount", NoAmount)
    ELSE Accepted

\* getNextMinimumBid without the case of an auction that has no bid yet.
getNextMinimumBidNoFirstBid(a) ==
    a.currentHighestBidCents + a.bidIncrementCents

getNextMinimumBid(a) ==
    IF a.currentHighestBidCents = 0
    THEN a.minimumBidCents
    ELSE a.currentHighestBidCents + a.bidIncrementCents

\* compareBids breaking a tie in amount in favour of the later bid.
compareBidsLatestFirst(x, y) ==
    IF x.bidAmountCents # y.bidAmountCents
    THEN y.bidAmountCents - x.bidAmountCents
    ELSE y.timestamp - x.timestamp

\* The comparator handed to Array.prototype.sort: negative puts x first.
compareBids(x, y) ==
    IF x.bidAmountCents # y.bidAmountCents
    THEN y.bidAmountCents - x.bidAmountCents
    ELSE x.timestamp - y.timestamp

\* Array.prototype.sort is stable: elements that compare equal keep their order.
RECURSIVE insertBid(_, _)
insertBid(b, s) ==
    IF s = <<>> THEN <<b>>
    ELSE IF compareBids(Head(s), b) <= 0
    THEN <<Head(s)>> \o insertBid(b, Tail(s))
    ELSE <<b>> \o s

RECURSIVE sortBids(_)
sortBids(bids) ==
    IF bids = <<>> THEN <<>>
    ELSE insertBid(bids[Len(bids)], sortBids(SubSeq(bids, 1, Len(bids) - 1)))

\* getWinningBid returning the bid added first.
getWinningBidFirstAdded(a) ==
    IF Len(a.bids) = 0 THEN NoBid ELSE a.bids[1]

getWinningBid(a) ==
    IF Len(a.bids) = 0 THEN NoBid ELSE sortBids(a.bids)[1]

\* closeAuction treating a second close as a no-op that succeeds.
closeAuctionIdempotent(a) ==
    [success |-> TRUE, winningBid |-> getWinningBid(a), finalStatus |-> "closed",
     totalBids |-> Len(a.bids), error |-> ""]

\* closeAuction reporting the totalBids field instead of counting the bids.
closeAuctionCountsField(a) ==
    IF a.status = "closed"
    THEN [success |-> FALSE, winningBid |-> NoBid, finalStatus |-> "closed",
          totalBids |-> a.totalBids, error |-> "Auction is already closed"]
    ELSE [success |-> TRUE, winningBid |-> getWinningBid(a), finalStatus |-> "closed",
          totalBids |-> a.totalBids, error |-> ""]

closeAuction(a) ==
    IF a.status = "closed"
    THEN [success |-> FALSE, winningBid |-> NoBid, finalStatus |-> "closed",
          totalBids |-> a.totalBids, error |-> "Auction is already closed"]
    ELSE [success |-> TRUE, winningBid |-> getWinningBid(a), finalStatus |-> "closed",
          totalBids |-> Len(a.bids), error |-> ""]

\* addBidToAuction leaving currentHighestBidCents as it was.
addBidKeepsHighest(a, t, bid) ==
    LET validation == validateBid(a, t, bid.bidAmountCents)
        updatedBids == Append(a.bids, bid)
    IN  IF ~validation.success
        THEN [threw |-> TRUE, error |-> validation, state |-> a]
        ELSE [threw |-> FALSE, error |-> Accepted,
              state |-> [a EXCEPT !.bids = updatedBids,
                                  !.totalBids = Len(updatedBids)]]

\* addBidToAuction incrementing the totalBids field instead of counting the bids.
addBidCountsUp(a, t, bid) ==
    LET validation == validateBid(a, t, bid.bidAmountCents)
        updatedBids == Append(a.bids, bid)
    IN  IF ~validation.success
        THEN [threw |-> TRUE, error |-> validation, state |-> a]
        ELSE [threw |-> FALSE, error |-> Accepted,
              state |-> [a EXCEPT !.bids = updatedBids,
                                  !.currentHighestBidCents =
                                      Max(a.currentHighestBidCents, bid.bidAmountCents),
                                  !.totalBids = a.totalBids + 1]]

\* addBidToAuction throwing only for an inactive auction and adding the bid
\* whatever the other checks say.
addBidIgnoresAmountChecks(a, t, bid) ==
    LET validation == validateBid(a, t, bid.bidAmountCents)
        updatedBids == Append(a.bids, bid)
    IN  IF ~validation.success /\ validation.error = "Auction is not currently active"
        THEN [threw |-> TRUE, error |-> validation, state |-> a]
        ELSE [threw |-> FALSE, error |-> Accepted,
              state |-> [a EXCEPT !.bids = updatedBids,
                                  !.currentHighestBidCents =
                                      Max(a.currentHighestBidCents, bid.bidAmountCents),
                                  !.totalBids = Len(updatedBids)]]

\* addBidToAuction either throws validation.error or returns the new state.
addBidToAuction(a, t, bid) ==
    LET validation == validateBid(a, t, bid.bidAmountCents)
        updatedBids == Append(a.bids, bid)
    IN  IF ~validation.success
        THEN [threw |-> TRUE, error |-> validation, state |-> a]
        ELSE [threw |-> FALSE, error |-> Accepted,
              state |-> [a EXCEPT !.bids = updatedBids,
                                  !.currentHighestBidCents =
                                      Max(a.currentHighestBidCents, bid.bidAmountCents),
                                  !.totalBids = Len(updatedBids)]]

-----------------------------------------------------------------------------
(* The lifecycle of one auction, bid submissions serialized: the caller     *)
(* holds the AuctionState, calls the engine and persists what it returns.   *)

Windows ==
    { w \in [startTime : 0 .. MaxTime, endTime : 0 .. MaxTime] : w.endTime > w.startTime }

\* A scheduled auction: status closed ("not yet started"), no bids.
EmptyAuction(w, min, inc) ==
    [lotId |-> LotId, status |-> "closed",
     startTime |-> w.startTime, endTime |-> w.endTime,
     minimumBidCents |-> Cents(min), bidIncrementCents |-> Cents(inc),
     currentHighestBidCents |-> 0, totalBids |-> 0, bids |-> <<>>]

NoCall == [op |-> "none"]

NoCalls == <<>>

Init ==
    /\ \E w \in Windows, min \in 0 .. MaxCents, inc \in 1 .. MaxIncrement :
           auction = EmptyAuction(w, min, inc)
    /\ now = 0
    /\ out = NoCall
    /\ closedByClose = FALSE
    /\ calls = NoCalls

Tick ==
    /\ now < MaxTime + 1
    /\ now' = now + 1
    /\ UNCHANGED <<auction, out, closedByClose, calls>>

\* The orchestrator opens the auction once the engine reports it can start.
StartAuction ==
    /\ canStartAuction(auction, now)
    /\ auction' = [auction EXCEPT !.status = "open"]
    /\ out' = [op |-> "start"]
    /\ UNCHANGED <<now, closedByClose, calls>>

\* Buyers take turns, as in the lifecycle test (bid-1 by buyer-1, bid-2 by buyer-2).
BuyerOf(id) == IF id % 2 = 1 THEN "buyer-1" ELSE "buyer-2"

NewBid(a, amount, ts) ==
    [id |-> Len(a.bids) + 1, lotId |-> a.lotId, buyerId |-> BuyerOf(Len(a.bids) + 1),
     bidAmountCents |-> amount, timestamp |-> ts]

\* A bid is submitted: the state is replaced by the returned one unless the
\* engine throws.
SubmitBid ==
    \E amount \in BidAmounts :
        LET bid == NewBid(auction, amount, now)
            r == addBidToAuction(auction, now, bid)
        IN  /\ auction' = IF r.threw THEN auction ELSE r.state
            /\ out' = [op |-> "addBid", input |-> auction, at |-> now,
                       bid |-> bid, result |-> r]
            /\ UNCHANGED <<now, closedByClose, calls>>

\* The auction is closed: on success the caller persists the final status.
CloseAuction ==
    LET r == closeAuction(auction)
    IN  /\ auction' = IF r.success THEN [auction EXCEPT !.status = r.finalStatus]
                      ELSE auction
        /\ out' = [op |-> "close", input |-> auction, at |-> now, result |-> r]
        /\ closedByClose' = (closedByClose \/ r.success)
        /\ UNCHANGED <<now, calls>>

Next ==
    \/ Tick
    \/ StartAuction
    \/ SubmitBid
    \/ CloseAuction

Spec == Init /\ [][Next]_vars

-----------------------------------------------------------------------------
(* The engine called on hand-built AuctionStates, as the unit tests do: the  *)
(* caller fills the fields itself, so currentHighestBidCents and totalBids   *)
(* need not agree with the bid list (the tests' fixture has a highest bid of *)
(* 12000 and totalBids 1 with no bids).                                      *)

FixtureBid(id, cents, ts) ==
    [id |-> id, lotId |-> LotId, buyerId |-> BuyerOf(id),
     bidAmountCents |-> Cents(cents), timestamp |-> ts]

\* Bids a test can put in a list: whole amounts, two instants, so that lists
\* hold ties in amount, in timestamp and in both.
FixtureBidPool ==
    { FixtureBid(id, c, ts) : id \in 1 .. MaxFixtureBids, c \in 1 .. 2, ts \in 0 .. 1 }

RECURSIVE ListsUpTo(_)
ListsUpTo(n) ==
    IF n = 0 THEN { <<>> }
    ELSE LET shorter == ListsUpTo(n - 1)
         IN  shorter \cup
             { Append(l, b) : l \in { x \in shorter : Len(x) = n - 1 }, b \in FixtureBidPool }

DistinctIds(l) == \A i, j \in 1 .. Len(l) : i # j => l[i].id # l[j].id

FixtureBidLists == { l \in ListsUpTo(MaxFixtureBids) : DistinctIds(l) }

\* The bid lists given to validateBid and addBidToAuction, which read none of
\* the bids: a list with a tie in amount and its prefixes.
RECURSIVE PlainBids(_)
PlainBids(n) ==
    IF n = 0 THEN <<>> ELSE Append(PlainBids(n - 1), FixtureBid(n, 1, n % 2))

Fixture(status, w, min, inc, high, total, bids) ==
    [lotId |-> LotId, status |-> status,
     startTime |-> w.startTime, endTime |-> w.endTime,
     minimumBidCents |-> Cents(min), bidIncrementCents |-> Cents(inc),
     currentHighestBidCents |-> Cents(high), totalBids |-> total, bids |-> bids]

\* The tests' beforeEach window: open, started, not yet ended.
OpenWindow == [startTime |-> 0, endTime |-> MaxTime]

InitBid ==
    /\ \E status \in {"open", "closed"}, w \in Windows,
          min \in 0 .. MaxCents, inc \in 1 .. MaxIncrement, high \in 0 .. MaxCents,
          total \in 0 .. MaxFixtureTotal, n \in 0 .. MaxFixtureBids :
           auction = Fixture(status, w, min, inc, high, total, PlainBids(n))
    /\ now \in Times
    /\ out = NoCall
    /\ closedByClose = FALSE
    /\ calls = NoCalls

InitWinner ==
    /\ \E status \in {"open", "closed"}, total \in 0 .. MaxFixtureTotal,
          bids \in FixtureBidLists :
           auction = Fixture(status, OpenWindow, 1, 1, 0, total, bids)
    /\ now \in Times
    /\ out = NoCall
    /\ closedByClose = FALSE
    /\ calls = NoCalls

CallValidateBid ==
    \E amount \in BidAmounts :
        /\ out' = [op |-> "validateBid", input |-> auction, at |-> now,
                   amount |-> amount, result |-> validateBid(auction, now, amount)]
        /\ UNCHANGED <<auction, now, closedByClose, calls>>

\* The caller keeps its own AuctionState: the returned state is only looked at.
CallAddBid ==
    \E amount \in BidAmounts :
        LET bid == NewBid(auction, amount, now)
        IN  /\ out' = [op |-> "addBid", input |-> auction, at |-> now, bid |-> bid,
                       result |-> addBidToAuction(auction, now, bid)]
            /\ UNCHANGED <<auction, now, closedByClose, calls>>

CallGetWinningBid ==
    /\ out' = [op |-> "getWinningBid", input |-> auction, at |-> now,
               result |-> getWinningBid(auction)]
    /\ UNCHANGED <<auction, now, closedByClose, calls>>

CallCloseAuction ==
    /\ out' = [op |-> "close", input |-> auction, at |-> now,
               result |-> closeAuction(auction)]
    /\ UNCHANGED <<auction, now, closedByClose, calls>>

NextBid ==
    \/ CallValidateBid
    \/ CallAddBid

NextWinner ==
    \/ CallGetWinningBid
    \/ CallCloseAuction

SpecBid == InitBid /\ [][NextBid]_vars

SpecWinner == InitWinner /\ [][NextWinner]_vars

-----------------------------------------------------------------------------
(* Bid submission without serialization: each caller loads the persisted    *)
(* AuctionState, calls addBidToAuction on its snapshot and, unless the call  *)
(* throws, saves the returned state.  Nothing orders the callers' steps.     *)

Callers == {1, 2}

IdleCall == [pc |-> "idle", snapshot |-> <<>>, bid |-> NoBid, result |-> <<>>, storedAt |-> 0]

\* Bids of different callers are different bids: each has its own id and buyer.
RaceBid(c, a, amount, ts) ==
    [id |-> Len(a.bids) + c, lotId |-> a.lotId, buyerId |-> BuyerOf(c),
     bidAmountCents |-> amount, timestamp |-> ts]

InitRace ==
    /\ \E w \in Windows, min \in 0 .. MaxCents, inc \in 1 .. MaxIncrement :
           auction = [EmptyAuction(w, min, inc) EXCEPT !.status = "open"]
    /\ now \in Times
    /\ out = NoCall
    /\ closedByClose = FALSE
    /\ calls = [c \in Callers |-> IdleCall]

RaceLoad(c) ==
    /\ calls[c].pc = "idle"
    /\ calls' = [calls EXCEPT ![c].pc = "loaded", ![c].snapshot = auction]
    /\ UNCHANGED <<auction, now, out, closedByClose>>

RaceCall(c) ==
    /\ calls[c].pc = "loaded"
    /\ \E amount \in BidAmounts :
           LET bid == RaceBid(c, calls[c].snapshot, amount, now)
               r == addBidToAuction(calls[c].snapshot, now, bid)
           IN  calls' = [calls EXCEPT ![c].pc = IF r.threw THEN "threw" ELSE "returned",
                                      ![c].bid = bid,
                                      ![c].result = r]
    /\ UNCHANGED <<auction, now, out, closedByClose>>

Stored == { c \in Callers : calls[c].pc = "stored" }

RaceStore(c) ==
    /\ calls[c].pc = "returned"
    /\ auction' = calls[c].result.state
    /\ calls' = [calls EXCEPT ![c].pc = "stored", ![c].storedAt = Cardinality(Stored) + 1]
    /\ UNCHANGED <<now, out, closedByClose>>

NextRace ==
    \E c \in Callers :
        \/ RaceLoad(c)
        \/ RaceCall(c)
        \/ RaceStore(c)

SpecRace == InitRace /\ [][NextRace]_vars

-----------------------------------------------------------------------------
(* The engine's queries on hand-built AuctionStates, and validateBid called *)
(* twice on one AuctionState while the clock runs.                           *)

CallIsAuctionActive ==
    /\ out' = [op |-> "isAuctionActive", input |-> auction, at |-> now,
               result |-> isAuctionActive(auction, now)]
    /\ UNCHANGED <<auction, now, closedByClose, calls>>

CallGetNextMinimumBid ==
    /\ out' = [op |-> "getNextMinimumBid", input |-> auction, at |-> now,
               result |-> getNextMinimumBid(auction)]
    /\ UNCHANGED <<auction, now, closedByClose, calls>>

NextQuery ==
    \/ CallIsAuctionActive
    \/ CallGetNextMinimumBid

SpecQuery == InitBid /\ [][NextQuery]_vars

InitTwice ==
    /\ \E status \in {"open", "closed"}, w \in Windows,
          min \in 0 .. MaxCents, inc \in 1 .. MaxIncrement, high \in 0 .. MaxCents :
           auction = Fixture(status, w, min, inc, high, 0, <<>>)
    /\ now = 0
    /\ out = NoCall
    /\ closedByClose = FALSE
    /\ calls = NoCalls

\* validateBid is called, and called again with the same arguments; the
\* AuctionState it is given is not assigned to.
CallValidateBidAgain ==
    /\ Len(calls) < 2
    /\ \E amount \in BidAmounts :
           /\ Len(calls) = 1 => amount = calls[1].amount
           /\ calls' = Append(calls, [input |-> auction, at |-> now, amount |-> amount,
                                      result |-> validateBid(auction, now, amount)])
    /\ UNCHANGED <<auction, now, out, closedByClose>>

NextTwice ==
    \/ Tick
    \/ CallValidateBidAgain

SpecTwice == InitTwice /\ [][NextTwice]_vars

-----------------------------------------------------------------------------
(* Money (money-utils). Amounts here are whole centavos. A JavaScript       *)
(* Number is an IEEE-754 binary64: a non-negative one is the record         *)
(* [m, e] standing for m * 2^e, with m a natural number of at most 53       *)
(* significant bits written as its sequence of bits, lowest bit first and   *)
(* highest bit last (<<>> is zero). Every arithmetic operation returns the  *)
(* exact result rounded to the nearest such number, ties to the even m.     *)

MaxGross == 130
MaxHours == 2

Chunk == 10

Radix == 2 ^ Chunk

\* The sequence without its zero bits above the highest one bit.
Trim(s) ==
    LET ones == {i \in 1 .. Len(s) : s[i] = 1}
    IN  IF ones = {} THEN <<>>
        ELSE SubSeq(s, 1, CHOOSE i \in ones : \A j \in ones : j <= i)

NatToBits(n) == Trim([i \in 1 .. 31 |-> (n \div 2 ^ (i - 1)) % 2])

RECURSIVE BitsToNat(_)
BitsToNat(s) == IF Len(s) = 0 THEN 0 ELSE s[1] + 2 * BitsToNat(Tail(s))

\* A natural number as its digits in base Radix, lowest first, and back.
ToLimbs(s) ==
    [j \in 1 .. ((Len(s) + Chunk - 1) \div Chunk) |->
        BitsToNat(SubSeq(s, Chunk * (j - 1) + 1,
                         IF Chunk * j <= Len(s) THEN Chunk * j ELSE Len(s)))]

FromLimbs(l) ==
    Trim([i \in 1 .. (Chunk * Len(l)) |->
             (l[((i - 1) \div Chunk) + 1] \div 2 ^ ((i - 1) % Chunk)) % 2])

RECURSIVE LimbsTimes(_, _, _)
LimbsTimes(l, k, carry) ==
    IF Len(l) = 0
    THEN IF carry = 0 THEN <<>>
         ELSE <<carry % Radix>> \o LimbsTimes(l, k, carry \div Radix)
    ELSE LET v == l[1] * k + carry
         IN  <<v % Radix>> \o LimbsTimes(Tail(l), k, v \div Radix)

RECURSIVE LimbsDivRem(_, _)
LimbsDivRem(l, d) ==
    IF Len(l) = 0
    THEN [q |-> <<>>, r |-> 0]
    ELSE LET hi == LimbsDivRem(Tail(l), d)
             cur == hi.r * Radix + l[1]
         IN  [q |-> <<cur \div d>> \o hi.q, r |-> cur % d]

BitsTimes(s, k) == FromLimbs(LimbsTimes(ToLimbs(s), k, 0))

BitsDivRem(s, d) ==
    LET qr == LimbsDivRem(ToLimbs(s), d)
    IN  [q |-> FromLimbs(qr.q), r |-> qr.r]

BitsPlusOne(s) ==
    LET n == CHOOSE n \in 0 .. Len(s) :
                 /\ \A i \in 1 .. n : s[i] = 1
                 /\ n = Len(s) \/ s[n + 1] = 0
    IN  [i \in 1 .. n |-> 0] \o <<1>> \o SubSeq(s, n + 2, Len(s))

Zeros(n) == [i \in 1 .. n |-> 0]

Significand == 53

Zero == [m |-> <<>>, e |-> 0]

\* The binary64 nearest to m * 2^e, ties to even.
RoundToDouble(m, e) ==
    IF Len(m) <= Significand
    THEN [m |-> m, e |-> e]
    ELSE LET t == Len(m) - Significand
             kept == SubSeq(m, t + 1, Len(m))
             sticky == \E i \in 1 .. (t - 1) : m[i] = 1
             up == m[t] = 1 /\ (sticky \/ kept[1] = 1)
         IN  [m |-> IF up THEN BitsPlusOne(kept) ELSE kept, e |-> e + t]

\* x * n for a Number x and a natural number n.
Product(x, n) ==
    IF n = 0 \/ Len(x.m) = 0 THEN Zero ELSE RoundToDouble(BitsTimes(x.m, n), x.e)

\* k / d for natural numbers k and d > 0: the quotient of k * 2^64 by d,
\* with one more low bit telling whether a remainder is left.
Quotient(k, d) ==
    IF k = 0 THEN Zero
    ELSE LET qr == BitsDivRem(Zeros(64) \o NatToBits(k), d)
         IN  RoundToDouble(<<IF qr.r = 0 THEN 0 ELSE 1>> \o qr.q, 0 - 65)

\* Math.floor(x) and Math.round(x) = floor(x + 1/2) for x >= 0.
MathFloor(x) ==
    IF x.e >= 0 THEN BitsToNat(Zeros(x.e) \o x.m)
    ELSE IF 0 - x.e >= Len(x.m) THEN 0
    ELSE BitsToNat(SubSeq(x.m, 1 - x.e, Len(x.m)))

MathRound(x) ==
    IF x.e >= 0 \/ 0 - x.e > Len(x.m)
    THEN MathFloor(x)
    ELSE MathFloor(x) + x.m[0 - x.e]

\* The literal 0.06.
CommissionRate == Quotient(6, 100)

\* The Number a decimal amount of pesos with two decimals denotes.
Pesos(k) == Quotient(k, 100)

\* pesosTocentavos with Math.floor for Math.round.
pesosTocentavosFloor(pesos) == MathFloor(Product(pesos, 100))

pesosTocentavos(pesos) == MathRound(Product(pesos, 100))

centavosToPesos(centavos) == Quotient(centavos, 100)

\* calculateCommission with Math.floor for Math.round.
calculateCommissionFloor(grossCents) == MathFloor(Product(CommissionRate, grossCents))

calculateCommission(grossCents) == MathRound(Product(CommissionRate, grossCents))

calculateLaborFee == 2500

RECURSIVE subtractMoney(_, _)
subtractMoney(minuend, subtrahends) ==
    IF subtrahends = <<>> THEN minuend
    ELSE subtractMoney(minuend - Head(subtrahends), Tail(subtrahends))

\* calculateSettlement taking only the commission off the winning bid.
calculateSettlementKeepsLaborFee(winningBidCents) ==
    LET commissionCents == MathRound(Product(CommissionRate, winningBidCents))
    IN  [grossAmount |-> winningBidCents,
         commissionCents |-> commissionCents,
         laborFeeCents |-> 2500,
         netToSupplierCents |-> winningBidCents - commissionCents]

calculateSettlement(winningBidCents) ==
    LET commissionCents == MathRound(Product(CommissionRate, winningBidCents))
        laborFeeCents == 2500
    IN  [grossAmount |-> winningBidCents,
         commissionCents |-> commissionCents,
         laborFeeCents |-> laborFeeCents,
         netToSupplierCents |-> winningBidCents - commissionCents - laborFeeCents]

\* The amounts the repository's tests use, with the least bid the bid form
\* admits (1000) and the amounts around the one that pays for the fees.
MoneyAmounts == (0 .. MaxGross) \cup {1000, 1001, 2659, 2660, 10000, 12345, 50000, 1000000}

\* One amount of centavos is drawn, and one function is applied to it.
InitMoney ==
    /\ auction = EmptyAuction([startTime |-> 0, endTime |-> 1], 0, 1)
    /\ now = 0
    /\ \E amount \in MoneyAmounts : out = [op |-> "none", amount |-> amount]
    /\ closedByClose = FALSE
    /\ calls = NoCalls

CallCalculateCommission ==
    /\ out.op = "none"
    /\ out' = [op |-> "calculateCommission", gross |-> out.amount,
               result |-> calculateCommission(out.amount)]
    /\ UNCHANGED <<auction, now, closedByClose, calls>>

\* The settlement of a sale, beside the amounts the single functions give.
CallCalculateSettlement ==
    /\ out.op = "none"
    /\ LET gross == out.amount
           commission == calculateCommission(gross)
           laborFee == calculateLaborFee
       IN  out' = [op |-> "calculateSettlement", gross |-> gross,
                   result |-> calculateSettlement(gross),
                   commission |-> commission, laborFee |-> laborFee,
                   net |-> subtractMoney(gross, <<commission, laborFee>>)]
    /\ UNCHANGED <<auction, now, closedByClose, calls>>

\* Pesos to centavos and back, and centavos to pesos and back.
CallConvert ==
    /\ out.op = "none"
    /\ LET k == out.amount
           x == Pesos(k)
           cents == pesosTocentavos(x)
       IN  out' = [op |-> "convert", centavos |-> k, pesos |-> x,
                   toCentavos |-> cents, back |-> centavosToPesos(cents),
                   there |-> pesosTocentavos(centavosToPesos(k))]
    /\ UNCHANGED <<auction, now, closedByClose, calls>>

NextMoney ==
    \/ CallCalculateCommission
    \/ CallCalculateSettlement
    \/ CallConvert

SpecMoney == InitMoney /\ [][NextMoney]_vars

-----------------------------------------------------------------------------
(* The AuctionState object a call is given, as the call leaves it. The      *)
(* caller holds the object and passes a reference to it; auction is that    *)
(* object.                                                                  *)

\* getWinningBid sorting auction.bids itself instead of a copy of it.
argumentAfterSortInPlace(a) == [a EXCEPT !.bids = sortBids(a.bids)]

\* [...auction.bids].sort(...): the copy is sorted, sortedBids[0] returned.
argumentAfterGetWinningBid(a) == a

\* Nothing is assigned on the early return; otherwise getWinningBid is the
\* one call that is handed the object.
argumentAfterCloseAuction(a) ==
    IF a.status = "closed" THEN a ELSE argumentAfterGetWinningBid(a)

\* The throw comes before any assignment; otherwise updatedBids is a new
\* array [...auction.bids, bid] and the result a new object {...auction}.
argumentAfterAddBidToAuction(a, t, bid) ==
    IF ~validateBid(a, t, bid.bidAmountCents).success THEN a ELSE a

InitFrame ==
    /\ \E status \in {"open", "closed"}, bids \in FixtureBidLists :
           auction = Fixture(status, OpenWindow, 1, 1, 0,
                             Len(bids), bids)
    /\ now \in Times
    /\ out = NoCall
    /\ closedByClose = FALSE
    /\ calls = NoCalls

FrameAddBid ==
    \E amount \in BidAmounts :
        LET bid == NewBid(auction, amount, now)
        IN  /\ out' = [op |-> "addBid", input |-> auction, at |-> now, bid |-> bid,
                       result |-> addBidToAuction(auction, now, bid)]
            /\ auction' = argumentAfterAddBidToAuction(auction, now, bid)
            /\ UNCHANGED <<now, closedByClose, calls>>

FrameCloseAuction ==
    /\ out' = [op |-> "close", input |-> auction, at |-> now,
               result |-> closeAuction(auction)]
    /\ auction' = argumentAfterCloseAuction(auction)
    /\ UNCHANGED <<now, closedByClose, calls>>

NextFrame ==
    \/ FrameAddBid
    \/ FrameCloseAuction

SpecFrame == InitFrame /\ [][NextFrame]_vars

-----------------------------------------------------------------------------
(* formatTimeRemaining. A string is the sequence of its characters.         *)

Digit(d) == <<"0", "1", "2", "3", "4", "5", "6", "7", "8", "9">>[d + 1]

\* `${n}` for a non-negative integer n.
RECURSIVE Decimal(_)
Decimal(n) == IF n < 10 THEN <<Digit(n)>> ELSE Decimal(n \div 10) \o <<Digit(n % 10)>>

\* formatTimeRemaining taking the minutes of the whole duration.
formatTimeRemainingAllMinutes(milliseconds) ==
    IF milliseconds <= 0
    THEN <<"E", "N", "D", "E", "D">>
    ELSE LET totalSeconds == milliseconds \div 1000
             hours == totalSeconds \div 3600
             minutes == totalSeconds \div 60
             seconds == totalSeconds % 60
         IN  IF hours > 0
             THEN Decimal(hours) \o <<"h", " ">> \o Decimal(minutes) \o <<"m", " ">>
                      \o Decimal(seconds) \o <<"s">>
             ELSE IF minutes > 0
             THEN Decimal(minutes) \o <<"m", " ">> \o Decimal(seconds) \o <<"s">>
             ELSE Decimal(seconds) \o <<"s">>

formatTimeRemaining(milliseconds) ==
    IF milliseconds <= 0
    THEN <<"E", "N", "D", "E", "D">>
    ELSE LET totalSeconds == milliseconds \div 1000
             hours == totalSeconds \div 3600
             minutes == (totalSeconds % 3600) \div 60
             seconds == totalSeconds % 60
         IN  IF hours > 0
             THEN Decimal(hours) \o <<"h", " ">> \o Decimal(minutes) \o <<"m", " ">>
                      \o Decimal(seconds) \o <<"s">>
             ELSE IF minutes > 0
             THEN Decimal(minutes) \o <<"m", " ">> \o Decimal(seconds) \o <<"s">>
             ELSE Decimal(seconds) \o <<"s">>

Durations ==
    { h * 3600000 + m * 60000 + s * 1000 + ms :
        h \in 0 .. MaxHours, m \in {0, 1, 5, 59}, s \in {0, 1, 5, 30, 59}, ms \in {0, 999} }
    \cup {0 - 1000, 0 - 1}

\* One duration is drawn, and formatted.
InitDisplay ==
    /\ auction = EmptyAuction([startTime |-> 0, endTime |-> 1], 0, 1)
    /\ now = 0
    /\ \E d \in Durations : out = [op |-> "none", milliseconds |-> d]
    /\ closedByClose = FALSE
    /\ calls = NoCalls

CallFormatTimeRemaining ==
    /\ out.op = "none"
    /\ out' = [op |-> "formatTimeRemaining", milliseconds |-> out.milliseconds,
               result |-> formatTimeRemaining(out.milliseconds)]
    /\ UNCHANGED <<auction, now, closedByClose, calls>>

NextDisplay == CallFormatTimeRemaining

SpecDisplay == InitDisplay /\ [][NextDisplay]_vars

-----------------------------------------------------------------------------
(* The server actions on the database. In the specifications below auction  *)
(* holds the committed rows of the tables, and calls[c] the transaction     *)
(* session c has in flight. A prisma.$transaction is an interactive         *)
(* PostgreSQL transaction at READ COMMITTED: each statement reads what is   *)
(* committed when it runs, the transaction's writes are held until its      *)
(* commit, a write waits for a session holding an uncommitted write of the  *)
(* same row or unique key, and a thrown Error rolls the writes back.        *)

MaxSessions == 3

Sessions == 1 .. MaxSessions

\* startAuction on a database whose Auction.lotId allows several rows per lot.
lotIdTakenNever(rows, lotId) == FALSE

\* CatchLot has one auction (lot.auction): Auction.lotId is a unique key.
lotIdTaken(rows, lotId) == \E a \in rows : a.lotId = lotId

ActiveAuctions(rows, lotId) == {a \in rows : a.lotId = lotId /\ a.status = "ACTIVE"}

Failed(msg) == [success |-> FALSE, error |-> msg]

Succeeded == [success |-> TRUE, error |-> ""]

Begin == [pc |-> "begin", result |-> Failed("")]

\* A lot not yet auctioned, one put back after its sale was rejected, one in
\* auction and one sold.
StartFixtures ==
    { [lot |-> [status |-> "AVAILABLE"], auctions |-> {}],
      [lot |-> [status |-> "AVAILABLE"],
       auctions |-> {[id |-> 0, lotId |-> LotId, status |-> "CANCELLED"]}],
      [lot |-> [status |-> "IN_AUCTION"],
       auctions |-> {[id |-> 0, lotId |-> LotId, status |-> "ACTIVE"]}],
      [lot |-> [status |-> "SOLD"],
       auctions |-> {[id |-> 0, lotId |-> LotId, status |-> "COMPLETED"]}] }

InitStart ==
    /\ auction \in StartFixtures
    /\ now = 0
    /\ out = NoCall
    /\ closedByClose = FALSE
    /\ calls = [c \in Sessions |-> Begin]

Finish(c, result) ==
    /\ calls' = [calls EXCEPT ![c] = [pc |-> "done", result |-> result]]
    /\ out' = [op |-> "startAuction", session |-> c, result |-> result]

\* tx.catchLot.findUnique and the check of lot.status
StartFindLot(c) ==
    /\ calls[c].pc = "begin"
    /\ IF auction.lot.status # "AVAILABLE"
       THEN Finish(c, Failed("Lot is not available for auction"))
       ELSE /\ calls' = [calls EXCEPT ![c].pc = "findActive"]
            /\ UNCHANGED out
    /\ UNCHANGED <<auction, now, closedByClose>>

\* tx.auction.findFirst({ lotId, status: 'ACTIVE' })
StartFindActive(c) ==
    /\ calls[c].pc = "findActive"
    /\ IF ActiveAuctions(auction.auctions, LotId) # {}
       THEN Finish(c, Failed("There is already an active auction for this lot"))
       ELSE /\ calls' = [calls EXCEPT ![c].pc = "create"]
            /\ UNCHANGED out
    /\ UNCHANGED <<auction, now, closedByClose>>

\* tx.auction.create: waits for a session holding an uncommitted row of the
\* lot; fails on a committed one.
StartCreate(c) ==
    /\ calls[c].pc = "create"
    /\ ~ \E d \in Sessions \ {c} :
           calls[d].pc \in {"update", "commit"} /\ lotIdTaken({[lotId |-> LotId]}, LotId)
    /\ IF lotIdTaken(auction.auctions, LotId)
       THEN Finish(c, Failed("Unique constraint failed on the fields: (lotId)"))
       ELSE /\ calls' = [calls EXCEPT ![c].pc = "update"]
            /\ UNCHANGED out
    /\ UNCHANGED <<auction, now, closedByClose>>

\* tx.catchLot.update({ status: IN_AUCTION }): waits for a session holding
\* an uncommitted update of the lot's row.
StartUpdateLot(c) ==
    /\ calls[c].pc = "update"
    /\ ~ \E d \in Sessions \ {c} : calls[d].pc = "commit"
    /\ calls' = [calls EXCEPT ![c].pc = "commit"]
    /\ UNCHANGED <<auction, now, out, closedByClose>>

StartCommit(c) ==
    /\ calls[c].pc = "commit"
    /\ auction' = [auction EXCEPT
                      !.lot.status = "IN_AUCTION",
                      !.auctions = @ \cup {[id |-> c, lotId |-> LotId, status |-> "ACTIVE"]}]
    /\ Finish(c, Succeeded)
    /\ UNCHANGED <<now, closedByClose>>

NextStart ==
    \E c \in Sessions :
        \/ StartFindLot(c)
        \/ StartFindActive(c)
        \/ StartCreate(c)
        \/ StartUpdateLot(c)
        \/ StartCommit(c)

SpecStart == InitStart /\ [][NextStart]_vars

-----------------------------------------------------------------------------
(* Request logging (logger, api-middleware). Here auction holds the Logger  *)
(* singleton's requestId and the number of UUIDs drawn so far (randomUUID   *)
(* never repeats: the n-th UUID is n), out is the log, and calls[r] is the  *)
(* API request r being handled. The code between two awaits runs without   *)
(* interruption; a handler may await before it logs again.                 *)

LogEntryOf(r, action, requestId) == [request |-> r, action |-> action, requestId |-> requestId]

InitLog ==
    /\ auction = [requestId |-> 1, issued |-> 1]
    /\ now = 0
    /\ out = <<>>
    /\ closedByClose = FALSE
    /\ calls = [r \in Sessions |-> [pc |-> "arrived", apiId |-> 0, wrapId |-> 0, header |-> 0]]

\* logApiCall: generateRequestId, setRequestId, apiRequest; then the wrapped
\* function of withApiLogging: randomUUID, setRequestId, handler(req); the
\* handler logs with logger.getRequestId() and returns or awaits.
RequestEnter(r) ==
    /\ calls[r].pc = "arrived"
    /\ LET apiId == auction.issued + 1
           wrapId == auction.issued + 2
       IN  /\ auction' = [requestId |-> wrapId, issued |-> wrapId]
           /\ out' = out \o <<LogEntryOf(r, "api_request", apiId),
                              LogEntryOf(r, "handler", wrapId)>>
           /\ \E next \in {"awaiting", "returned"} :
                  calls' = [calls EXCEPT ![r] = [pc |-> next, apiId |-> apiId,
                                                 wrapId |-> wrapId, header |-> 0]]
    /\ UNCHANGED <<now, closedByClose>>

\* The handler goes on after its await and logs with logger.getRequestId().
HandlerResume(r) ==
    /\ calls[r].pc = "awaiting"
    /\ out' = Append(out, LogEntryOf(r, "handler", auction.requestId))
    /\ calls' = [calls EXCEPT ![r].pc = "returned"]
    /\ UNCHANGED <<auction, now, closedByClose>>

\* response.headers.set('X-Request-ID', requestId); then logApiCall logs
\* apiResponse with its own requestId.
RequestRespond(r) ==
    /\ calls[r].pc = "returned"
    /\ out' = Append(out, LogEntryOf(r, "api_response", calls[r].apiId))
    /\ calls' = [calls EXCEPT ![r].pc = "done", ![r].header = calls[r].wrapId]
    /\ UNCHANGED <<auction, now, closedByClose>>

NextLog ==
    \E r \in Sessions :
        \/ RequestEnter(r)
        \/ HandlerResume(r)
        \/ RequestRespond(r)

SpecLog == InitLog /\ [][NextLog]_vars

-----------------------------------------------------------------------------
(* Audit logging (audit-logger) within startAuction, one session. Here      *)
(* auction holds the committed rows, the audit events among them, and calls *)
(* the one startAuction in flight with what the run is given: the role of   *)
(* the session's user and whether the writes of the audit event and of the  *)
(* fallback 'failed' audit event throw.                                     *)

\* logEvent without the inner try around the fallback write.
logEventFallbackUnguarded(createThrows, fallbackThrows) ==
    IF ~createThrows THEN [threw |-> FALSE, rows |-> <<[success |-> TRUE]>>]
    ELSE IF ~fallbackThrows THEN [threw |-> FALSE, rows |-> <<[success |-> FALSE]>>]
    ELSE [threw |-> TRUE, rows |-> <<>>]

\* What logEvent does for its caller: whether it throws, and the audit
\* events it has written.
logEvent(createThrows, fallbackThrows) ==
    IF ~createThrows THEN [threw |-> FALSE, rows |-> <<[success |-> TRUE]>>]
    ELSE IF ~fallbackThrows THEN [threw |-> FALSE, rows |-> <<[success |-> FALSE]>>]
    ELSE [threw |-> FALSE, rows |-> <<>>]

Roles == {"BROKER", "BUYER", "SUPPLIER", "none"}

NotAudited == [threw |-> FALSE, rows |-> <<[success |-> TRUE]>>, ran |-> FALSE]

InitAudit ==
    /\ \E s \in StartFixtures :
           auction = [lot |-> s.lot, auctions |-> s.auctions, auditEvents |-> <<>>]
    /\ now = 0
    /\ out = NoCall
    /\ closedByClose = FALSE
    /\ \E role \in Roles, createThrows \in BOOLEAN, fallbackThrows \in BOOLEAN :
           calls = [pc |-> "called", role |-> role, createThrows |-> createThrows,
                    fallbackThrows |-> fallbackThrows, committed |-> FALSE,
                    audited |-> NotAudited]

\* getServerSession and the role check
AuditAuthorize ==
    /\ calls.pc = "called"
    /\ calls' = [calls EXCEPT !.pc = IF calls.role = "BROKER" THEN "transaction" ELSE "denied"]
    /\ UNCHANGED <<auction, now, out, closedByClose>>

\* prisma.$transaction of startAuction, no other session running
AuditTransaction ==
    /\ calls.pc = "transaction"
    /\ IF /\ auction.lot.status = "AVAILABLE"
          /\ ActiveAuctions(auction.auctions, LotId) = {}
          /\ ~lotIdTaken(auction.auctions, LotId)
       THEN /\ auction' = [auction EXCEPT
                              !.lot.status = "IN_AUCTION",
                              !.auctions = @ \cup {[id |-> 1, lotId |-> LotId,
                                                     status |-> "ACTIVE"]}]
            /\ calls' = [calls EXCEPT !.pc = "audit", !.committed = TRUE]
            /\ UNCHANGED out
       ELSE /\ calls' = [calls EXCEPT !.pc = "done"]
            /\ out' = [op |-> "startAuction", result |-> Failed("transaction failed")]
            /\ UNCHANGED auction
    /\ UNCHANGED <<now, closedByClose>>

\* await auditLogger.logAuctionStarted / logPermissionDenied, inside the try
\* of startAuction, and the return that follows or the catch.
AuditLogEvent ==
    /\ calls.pc \in {"audit", "denied"}
    /\ LET r == logEvent(calls.createThrows, calls.fallbackThrows)
       IN  /\ auction' = [auction EXCEPT !.auditEvents = @ \o r.rows]
           /\ calls' = [calls EXCEPT !.pc = "done",
                                     !.audited = [threw |-> r.threw, rows |-> r.rows,
                                                  ran |-> TRUE]]
           /\ out' = [op |-> "startAuction",
                      result |-> IF r.threw THEN Failed("Failed to start auction")
                                 ELSE IF calls.pc = "denied"
                                 THEN Failed("Unauthorized: Only brokers can start auctions")
                                 ELSE Succeeded]
    /\ UNCHANGED <<now, closedByClose>>

NextAudit ==
    \/ AuditAuthorize
    \/ AuditTransaction
    \/ AuditLogEvent

SpecAudit == InitAudit /\ [][NextAudit]_vars

-----------------------------------------------------------------------------
(* The countdown shown for an auction beside what the engine answers at the *)
(* same instant. The instants of the model are milliseconds.                *)

getTimeRemaining(a, t) == a.endTime - t

CallCountdown ==
    /\ out' = [op |-> "countdown", input |-> auction, at |-> now,
               result |-> formatTimeRemaining(getTimeRemaining(auction, now)),
               hasEnded |-> hasAuctionEnded(auction, now),
               isActive |-> isAuctionActive(auction, now)]
    /\ UNCHANGED <<auction, now, closedByClose, calls>>

NextCountdown == CallCountdown

SpecCountdown == InitBid /\ [][NextCountdown]_vars

-----------------------------------------------------------------------------
(* placeBid (server action) beside validateBid (engine). An auction row is  *)
(* [status, startPrice, currentPrice, startTime, endTime, winningBidId], a  *)
(* bid row [id, amount, isWinning]; amounts here are whole centavos.        *)

MaxPriceSteps == 2

\* The checks of placeBid on the auction row it has read: the Error thrown,
\* or "" when the bid goes on to be created.
placeBidCheck(row, t, amount) ==
    IF row.status # "ACTIVE" THEN "Auction is not active"
    ELSE IF t > row.endTime THEN "Auction has ended"
    ELSE IF amount < row.currentPrice + 500 THEN "Minimum bid amount is"
    ELSE ""

HighestBidAmount(bidRows) ==
    CHOOSE m \in {b.amount : b \in bidRows} : \A b \in bidRows : b.amount <= m

\* The AuctionState of the engine that corresponds to an auction row and
\* its bid rows: minimumBid = startPrice, bidIncrement = 500,
\* currentHighestBid = 0 without bids and the highest bid amount otherwise.
AuctionStateOf(row, bidRows) ==
    [lotId |-> LotId,
     status |-> IF row.status = "ACTIVE" THEN "open" ELSE "closed",
     startTime |-> row.startTime, endTime |-> row.endTime,
     minimumBidCents |-> Cents(row.startPrice), bidIncrementCents |-> Cents(500),
     currentHighestBidCents |-> IF bidRows = {} THEN 0 ELSE Cents(HighestBidAmount(bidRows)),
     totalBids |-> Cardinality(bidRows), bids |-> <<>>]

\* An auction as startAuction creates it (currentPrice = startPrice, no
\* bids), or with one bid placed, ACTIVE or COMPLETED.
PlaceFixtures ==
    { [row |-> [status |-> status, startPrice |-> 500 * k,
                currentPrice |-> 500 * (k + j), startTime |-> 0, endTime |-> 1,
                winningBidId |-> IF j = 0 THEN 0 ELSE 1],
       bids |-> IF j = 0 THEN {}
                ELSE {[id |-> 1, amount |-> 500 * (k + j), isWinning |-> TRUE]}] :
        status \in {"ACTIVE", "COMPLETED"}, k \in 1 .. MaxPriceSteps, j \in 0 .. 2 }

PlaceOffsets == {0 - 500, 0 - 1, 0, 1, 499, 500, 501, 1000}

\* One auction, one instant and one amount are drawn; placeBid's checks and
\* validateBid are applied to them.
InitPlace ==
    /\ auction \in PlaceFixtures
    /\ now \in 0 .. 2
    /\ \E d \in PlaceOffsets : out = [op |-> "none", amount |-> auction.row.currentPrice + d]
    /\ closedByClose = FALSE
    /\ calls = NoCalls

CallPlaceBidAndValidateBid ==
    /\ out.op = "none"
    /\ out' = [op |-> "placeBid", row |-> auction.row, at |-> now, amount |-> out.amount,
               error |-> placeBidCheck(auction.row, now, out.amount),
               engine |-> validateBid(AuctionStateOf(auction.row, auction.bids), now,
                                      Cents(out.amount))]
    /\ UNCHANGED <<auction, now, closedByClose, calls>>

NextPlace == CallPlaceBidAndValidateBid

SpecPlace == InitPlace /\ [][NextPlace]_vars

-----------------------------------------------------------------------------
(* Concurrent placeBid transactions on one ACTIVE auction, then closeAuction *)
(* (server action). auction holds the committed auction row and bid rows,   *)
(* the bid numbers in use and whether Bid.bidNumber is a unique key (the    *)
(* schema is not among the sources: both are admitted); calls[c] is the     *)
(* transaction of bidder c. The id of the bid c creates is c + 1.           *)

MaxBidders == 2

Bidders == 1 .. MaxBidders

InitBids ==
    /\ \E f \in {g \in PlaceFixtures : g.row.status = "ACTIVE" /\ g.row.startPrice = 500},
          unique \in BOOLEAN :
           auction = [row |-> f.row, bids |-> f.bids,
                      numbers |-> {b.id : b \in f.bids}, uniqueBidNumber |-> unique]
    /\ now = 0
    /\ out = NoCall
    /\ closedByClose = FALSE
    /\ calls \in [Bidders ->
                    {[pc |-> "begin", amount |-> 500 * (m + 1), number |-> 0,
                      unmarked |-> {}, result |-> Failed("")] :
                         m \in 1 .. (MaxPriceSteps + 1)}]

BidFinish(c, result) ==
    calls' = [calls EXCEPT ![c].pc = "done", ![c].result = result]

\* tx.auction.findUnique and the checks on what it returned
BidReadAuction(c) ==
    /\ calls[c].pc = "begin"
    /\ LET error == placeBidCheck(auction.row, now, calls[c].amount)
       IN  IF error # "" THEN BidFinish(c, Failed(error))
           ELSE calls' = [calls EXCEPT ![c].pc = "count"]
    /\ UNCHANGED <<auction, now, out, closedByClose>>

\* tx.bid.count: bidNumber = count + 1
BidCount(c) ==
    /\ calls[c].pc = "count"
    /\ calls' = [calls EXCEPT ![c].pc = "unmark",
                              ![c].number = Cardinality(auction.bids) + 1]
    /\ UNCHANGED <<auction, now, out, closedByClose>>

\* tx.bid.updateMany({ where: { auctionId }, data: { isWinning: false } }):
\* the committed bid rows, once no other transaction holds one of them.
BidUnmark(c) ==
    /\ calls[c].pc = "unmark"
    /\ LET rows == {b.id : b \in auction.bids}
       IN  /\ \A d \in Bidders \ {c} :
                  calls[d].pc \in {"create", "update", "commit"} =>
                      calls[d].unmarked \cap rows = {}
           /\ calls' = [calls EXCEPT ![c].pc = "create", ![c].unmarked = rows]
    /\ UNCHANGED <<auction, now, out, closedByClose>>

\* tx.bid.create({ ..., amount, isWinning: true })
BidCreate(c) ==
    /\ calls[c].pc = "create"
    /\ auction.uniqueBidNumber =>
           \A d \in Bidders \ {c} :
               calls[d].pc \in {"update", "commit"} => calls[d].number # calls[c].number
    /\ IF auction.uniqueBidNumber /\ calls[c].number \in auction.numbers
       THEN BidFinish(c, Failed("Unique constraint failed on the fields: (bidNumber)"))
       ELSE calls' = [calls EXCEPT ![c].pc = "update"]
    /\ UNCHANGED <<auction, now, out, closedByClose>>

\* tx.auction.update({ currentPrice: amount, winningBidId: bid.id }): waits
\* for a transaction holding an uncommitted update of the auction row.
BidUpdateAuction(c) ==
    /\ calls[c].pc = "update"
    /\ \A d \in Bidders \ {c} : calls[d].pc # "commit"
    /\ calls' = [calls EXCEPT ![c].pc = "commit"]
    /\ UNCHANGED <<auction, now, out, closedByClose>>

BidCommit(c) ==
    /\ calls[c].pc = "commit"
    /\ auction' = [auction EXCEPT
                      !.bids = {IF b.id \in calls[c].unmarked
                                THEN [b EXCEPT !.isWinning = FALSE] ELSE b : b \in @}
                               \cup {[id |-> c + 1, amount |-> calls[c].amount,
                                      isWinning |-> TRUE]},
                      !.numbers = @ \cup {calls[c].number},
                      !.row.currentPrice = calls[c].amount,
                      !.row.winningBidId = c + 1]
    /\ BidFinish(c, Succeeded)
    /\ UNCHANGED <<now, out, closedByClose>>

\* closeAuction (server action) once the placeBid transactions have
\* finished: bids ordered by amount descending, the first one wins.
CloseAfterBids ==
    /\ \A c \in Bidders : calls[c].pc = "done"
    /\ auction.row.status = "ACTIVE"
    /\ auction.bids # {}
    /\ \E highestBid \in {b \in auction.bids : b.amount = HighestBidAmount(auction.bids)} :
           /\ auction' = [auction EXCEPT
                             !.row.status = "COMPLETED",
                             !.row.winningBidId = highestBid.id,
                             !.row.currentPrice = highestBid.amount,
                             !.bids = {[b EXCEPT !.isWinning = (b.id = highestBid.id)] :
                                          b \in @}]
           /\ out' = [op |-> "closeAuction", winningBid |-> highestBid,
                      marked |-> {b \in auction.bids : b.isWinning}]
    /\ UNCHANGED <<now, closedByClose, calls>>

NextBids ==
    \/ \E c \in Bidders :
           \/ BidReadAuction(c)
           \/ BidCount(c)
           \/ BidUnmark(c)
           \/ BidCreate(c)
           \/ BidUpdateAuction(c)
           \/ BidCommit(c)
    \/ CloseAfterBids

SpecBids == InitBids /\ [][NextBids]_vars

-----------------------------------------------------------------------------
(* approveLotSale, rejectLotSale and startAuction (dashboard actions) on a  *)
(* lot whose auction was closed with a winning bid. auction holds the       *)
(* committed rows: the lot, its auction, the auction's bids, the            *)
(* transactions and settlements, and whether Transaction.lotId is a unique  *)
(* key (lot.transaction; the schema is not among the sources: both are      *)
(* admitted). calls[c] is the transaction of session c; late records that   *)
(* the call began after an approval had committed.                          *)

InitSale ==
    /\ \E unique \in BOOLEAN :
           auction = [lot |-> [status |-> "PENDING_SUPPLIER_APPROVAL"],
                      auctions |-> {[id |-> 0, lotId |-> LotId, status |-> "COMPLETED"]},
                      bids |-> {[id |-> 1, isWinning |-> TRUE]},
                      transactions |-> {},
                      settlements |-> {},
                      uniqueLotId |-> unique]
    /\ now = 0
    /\ out = NoCall
    /\ closedByClose = FALSE
    /\ calls \in [Sessions ->
                    {[op |-> op, pc |-> "begin", bidId |-> 0, unmarked |-> {},
                      late |-> FALSE, result |-> Failed("")] :
                         op \in {"approveLotSale", "rejectLotSale", "startAuction"}}]

Approved == \E d \in Sessions :
    calls[d].op = "approveLotSale" /\ calls[d].pc = "done" /\ calls[d].result.success

SaleFinish(c, result) ==
    calls' = [calls EXCEPT ![c].pc = "done", ![c].result = result,
                           ![c].late = IF calls[c].pc = "begin" THEN Approved ELSE @]

SaleStep(c, pc) ==
    calls' = [calls EXCEPT ![c].pc = pc,
                           ![c].late = IF calls[c].pc = "begin" THEN Approved ELSE @]

\* approveLotSale: tx.catchLot.findUnique with the auction's winning bids,
\* and the checks on what it returned
ApproveFindLot(c) ==
    /\ calls[c].op = "approveLotSale" /\ calls[c].pc = "begin"
    /\ LET winning == {b \in auction.bids : b.isWinning}
       IN  IF auction.lot.status # "PENDING_SUPPLIER_APPROVAL"
           THEN SaleFinish(c, Failed("Lot is not pending approval"))
           ELSE IF auction.auctions = {} \/ winning = {}
           THEN SaleFinish(c, Failed("No winning bid found for this lot"))
           ELSE \E winningBid \in winning :
                    calls' = [calls EXCEPT ![c].pc = "createTransaction",
                                           ![c].bidId = winningBid.id,
                                           ![c].late = Approved]
    /\ UNCHANGED <<auction, now, out, closedByClose>>

\* tx.transaction.create({ lotId, bidId, type: 'SALE', ... })
ApproveCreateTransaction(c) ==
    /\ calls[c].op = "approveLotSale" /\ calls[c].pc = "createTransaction"
    /\ auction.uniqueLotId =>
           \A d \in Sessions \ {c} :
               calls[d].op = "approveLotSale" =>
                   calls[d].pc \notin {"createSettlement", "updateLot", "commit"}
    /\ IF auction.uniqueLotId /\ auction.transactions # {}
       THEN SaleFinish(c, Failed("Unique constraint failed on the fields: (lotId)"))
       ELSE SaleStep(c, "createSettlement")
    /\ UNCHANGED <<auction, now, out, closedByClose>>

\* tx.settlement.create({ transactionId, status: 'PENDING', ... })
ApproveCreateSettlement(c) ==
    /\ calls[c].op = "approveLotSale" /\ calls[c].pc = "createSettlement"
    /\ SaleStep(c, "updateLot")
    /\ UNCHANGED <<auction, now, out, closedByClose>>

\* tx.catchLot.update({ where: { id: lotId }, data: { status } }) of either
\* action: waits for a transaction holding an uncommitted update of the lot.
SaleUpdateLot(c) ==
    /\ calls[c].op \in {"approveLotSale", "rejectLotSale"} /\ calls[c].pc = "updateLot"
    /\ \A d \in Sessions \ {c} : calls[d].pc # "commit"
    /\ SaleStep(c, "commit")
    /\ UNCHANGED <<auction, now, out, closedByClose>>

ApproveCommit(c) ==
    /\ calls[c].op = "approveLotSale" /\ calls[c].pc = "commit"
    /\ auction' = [auction EXCEPT
                      !.transactions = @ \cup {[id |-> c, lotId |-> LotId,
                                                bidId |-> calls[c].bidId, type |-> "SALE"]},
                      !.settlements = @ \cup {[id |-> c, transactionId |-> c,
                                               status |-> "PENDING"]},
                      !.lot.status = "SOLD"]
    /\ SaleFinish(c, Succeeded)
    /\ UNCHANGED <<now, out, closedByClose>>

\* rejectLotSale: tx.catchLot.findUnique and the check of lot.status
RejectFindLot(c) ==
    /\ calls[c].op = "rejectLotSale" /\ calls[c].pc = "begin"
    /\ IF auction.lot.status # "PENDING_SUPPLIER_APPROVAL"
       THEN SaleFinish(c, Failed("Lot is not pending approval"))
       ELSE SaleStep(c, "unmark")
    /\ UNCHANGED <<auction, now, out, closedByClose>>

\* tx.bid.updateMany({ where: { auctionId, isWinning: true }, data: { isWinning: false } })
RejectUnmark(c) ==
    /\ calls[c].op = "rejectLotSale" /\ calls[c].pc = "unmark"
    /\ LET rows == {b.id : b \in {x \in auction.bids : x.isWinning}}
       IN  /\ \A d \in Sessions \ {c} :
                  calls[d].pc \in {"updateLot", "commit"} => calls[d].unmarked \cap rows = {}
           /\ calls' = [calls EXCEPT ![c].pc = "updateLot", ![c].unmarked = rows]
    /\ UNCHANGED <<auction, now, out, closedByClose>>

RejectCommit(c) ==
    /\ calls[c].op = "rejectLotSale" /\ calls[c].pc = "commit"
    /\ auction' = [auction EXCEPT
                      !.bids = {IF b.id \in calls[c].unmarked
                                THEN [b EXCEPT !.isWinning = FALSE] ELSE b : b \in @},
                      !.lot.status = "AVAILABLE"]
    /\ SaleFinish(c, Succeeded)
    /\ UNCHANGED <<now, out, closedByClose>>

\* startAuction: tx.catchLot.findUnique and the check of lot.status
SaleStartFindLot(c) ==
    /\ calls[c].op = "startAuction" /\ calls[c].pc = "begin"
    /\ IF auction.lot.status # "AVAILABLE"
       THEN SaleFinish(c, Failed("Lot is not available for auction"))
       ELSE SaleStep(c, "findActive")
    /\ UNCHANGED <<auction, now, out, closedByClose>>

\* tx.auction.findFirst({ lotId, status: 'ACTIVE' })
SaleStartFindActive(c) ==
    /\ calls[c].op = "startAuction" /\ calls[c].pc = "findActive"
    /\ IF ActiveAuctions(auction.auctions, LotId) # {}
       THEN SaleFinish(c, Failed("There is already an active auction for this lot"))
       ELSE SaleStep(c, "create")
    /\ UNCHANGED <<auction, now, out, closedByClose>>

\* tx.auction.create: the lot has the row of its closed auction.
SaleStartCreate(c) ==
    /\ calls[c].op = "startAuction" /\ calls[c].pc = "create"
    /\ lotIdTaken(auction.auctions, LotId)
    /\ SaleFinish(c, Failed("Unique constraint failed on the fields: (lotId)"))
    /\ UNCHANGED <<auction, now, out, closedByClose>>

NextSale ==
    \E c \in Sessions :
        \/ ApproveFindLot(c)
        \/ ApproveCreateTransaction(c)
        \/ ApproveCreateSettlement(c)
        \/ SaleUpdateLot(c)
        \/ ApproveCommit(c)
        \/ RejectFindLot(c)
        \/ RejectUnmark(c)
        \/ RejectCommit(c)
        \/ SaleStartFindLot(c)
        \/ SaleStartFindActive(c)
        \/ SaleStartCreate(c)

SpecSale == InitSale /\ [][NextSale]_vars

-----------------------------------------------------------------------------
(* What the claims are stated with: the requirements in their own words,    *)
(* independent of the engine's operators.                                    *)

BidsOf(l) == { l[i] : i \in 1 .. Len(l) }

\* The maximum amount among the bids of a list, zero for the empty list.
HighestAmount(l) ==
    IF l = <<>> THEN 0
    ELSE CHOOSE m \in { b.bidAmountCents : b \in BidsOf(l) } :
             \A b \in BidsOf(l) : b.bidAmountCents <= m

InWindow(a, t) == a.status = "open" /\ a.startTime <= t /\ t <= a.endTime

PositiveInteger(x) == x > 0 /\ \E k \in 1 .. x : x = Cents(k)

Admissible(a, t, x) ==
    /\ InWindow(a, t)
    /\ x >= a.minimumBidCents
    /\ x >= a.currentHighestBidCents + a.bidIncrementCents
    /\ PositiveInteger(x)

\* b is a bid of maximum amount and, among those, of earliest timestamp.
TopBid(l, b) ==
    /\ b \in BidsOf(l)
    /\ \A c \in BidsOf(l) : c.bidAmountCents <= b.bidAmountCents
    /\ \A c \in BidsOf(l) : c.bidAmountCents = b.bidAmountCents => b.timestamp <= c.timestamp

IsPrefix(s, t) == Len(s) <= Len(t) /\ s = SubSeq(t, 1, Len(s))

Orders(l) ==
    { [i \in 1 .. Len(l) |-> l[f[i]]] :
        f \in { g \in [1 .. Len(l) -> 1 .. Len(l)] :
                    \A i, j \in 1 .. Len(l) : i # j => g[i] # g[j] } }

-----------------------------------------------------------------------------
(* C1. In every state reached from an empty auction by addBid calls,       *)
(* successful or failing, currentHighestBidCents is the maximum amount     *)
(* among the bids (zero without bids) and totalBids is the number of bids. *)
C1_HighestAndTotalMatchBids ==
    /\ auction.currentHighestBidCents = HighestAmount(auction.bids)
    /\ auction.totalBids = Len(auction.bids)

C1_Witness ==
    /\ Len(auction.bids) >= 2
    /\ out.op = "addBid"
    /\ out.result.threw

(* C2. validateBid succeeds iff the auction is active, the amount is at    *)
(* least the minimum, at least the current highest plus the increment, and *)
(* a positive integer; an amount equal to the current highest plus the     *)
(* increment is accepted and every smaller one rejected.                   *)
C2_ValidateBidIffAdmissible ==
    out.op = "validateBid" =>
        /\ out.result.success <=> Admissible(out.input, out.at, out.amount)
        /\ out.amount < out.input.currentHighestBidCents + out.input.bidIncrementCents
               => ~out.result.success

C2_Witness ==
    /\ out.op = "validateBid"
    /\ out.result.success
    /\ out.input.currentHighestBidCents > 0
    /\ out.amount = out.input.currentHighestBidCents + out.input.bidIncrementCents

(* C3. A rejection carries one reason, that of the first failing check in  *)
(* the order: not active; below minimum, reporting the minimum; below the  *)
(* required increment, reporting current highest plus increment; invalid   *)
(* amount.                                                                 *)
C3_FirstFailingCheck ==
    (out.op = "validateBid" /\ ~out.result.success) =>
        LET a == out.input
            x == out.amount
            required == a.currentHighestBidCents + a.bidIncrementCents
        IN  /\ ~InWindow(a, out.at) =>
                out.result = Rejected("Auction is not currently active", NoAmount)
            /\ (InWindow(a, out.at) /\ x < a.minimumBidCents) =>
                out.result = Rejected("Bid must be at least $", ToFixed2(a.minimumBidCents))
            /\ (InWindow(a, out.at) /\ x >= a.minimumBidCents /\ x < required) =>
                out.result = Rejected("Bid must be at least $ (current high + increment)",
                                      ToFixed2(required))
            /\ (InWindow(a, out.at) /\ x >= a.minimumBidCents /\ x >= required) =>
                out.result = Rejected("Invalid bid amount", NoAmount)

C3_Witness ==
    /\ out.op = "validateBid"
    /\ InWindow(out.input, out.at)
    /\ out.amount < out.input.minimumBidCents
    /\ out.amount < out.input.currentHighestBidCents + out.input.bidIncrementCents
    /\ out.input.minimumBidCents #
           out.input.currentHighestBidCents + out.input.bidIncrementCents
    /\ out.result = Rejected("Bid must be at least $", ToFixed2(out.input.minimumBidCents))

(* C4 as claimed. On success addBid returns the input's bids with the new  *)
(* bid appended, currentHighestBidCents = max(input's, bid amount) and     *)
(* totalBids = the input's totalBids plus one.                             *)
C4_TotalBidsIncremented ==
    (out.op = "addBid" /\ ~out.result.threw) =>
        /\ out.result.state.bids = Append(out.input.bids, out.bid)
        /\ out.result.state.currentHighestBidCents =
               Max(out.input.currentHighestBidCents, out.bid.bidAmountCents)
        /\ out.result.state.totalBids = out.input.totalBids + 1

(* C4 as amended. On success addBid returns the input's bids with the new  *)
(* bid appended as last element, currentHighestBidCents = max(input's, bid *)
(* amount) and totalBids = the number of bids of the returned list, which  *)
(* is the input's totalBids plus one only if that agreed with its bids.    *)
C4_AddBidAppendsAndCounts ==
    (out.op = "addBid" /\ ~out.result.threw) =>
        /\ out.result.state.bids = Append(out.input.bids, out.bid)
        /\ out.result.state.currentHighestBidCents =
               Max(out.input.currentHighestBidCents, out.bid.bidAmountCents)
        /\ out.result.state.totalBids = Len(out.input.bids) + 1
        /\ out.input.totalBids = Len(out.input.bids)
               => out.result.state.totalBids = out.input.totalBids + 1

C4_Witness ==
    /\ out.op = "addBid"
    /\ ~out.result.threw
    /\ Len(out.input.bids) >= 1
    /\ out.input.totalBids # Len(out.input.bids)

(* C5. addBid throws exactly when validateBid rejects the bid's amount for *)
(* the same auction, with that rejection reason; then the caller's state   *)
(* is what it was and does not hold the rejected bid.                      *)
C5_AddBidThrowsIffRejected ==
    out.op = "addBid" =>
        LET v == validateBid(out.input, out.at, out.bid.bidAmountCents)
        IN  /\ out.result.threw <=> ~Admissible(out.input, out.at, out.bid.bidAmountCents)
            /\ out.result.threw =>
                /\ out.result.error = v
                /\ ~v.success
                /\ auction = out.input
                /\ out.bid \notin BidsOf(auction.bids)

C5_Witness ==
    /\ out.op = "addBid"
    /\ out.result.threw
    /\ InWindow(out.input, out.at)
    /\ Len(auction.bids) >= 1
    /\ PositiveInteger(out.bid.bidAmountCents)

(* C6 as claimed. getWinningBid returns null iff there are no bids;        *)
(* otherwise a bid of maximum amount, of earliest timestamp among those,   *)
(* and every order of the same bids yields the same winner.                *)
C6_SameWinnerInEveryOrder ==
    out.op = "getWinningBid" =>
        LET l == out.input.bids
        IN  /\ out.result = NoBid <=> Len(l) = 0
            /\ Len(l) > 0 =>
                /\ TopBid(l, out.result)
                /\ \A p \in Orders(l) :
                       getWinningBid([out.input EXCEPT !.bids = p]) = out.result

(* C6 as amended. getWinningBid returns null iff there are no bids;        *)
(* otherwise a bid of maximum amount, of earliest timestamp among those;   *)
(* every order of the same bids yields a winner of that amount and         *)
(* timestamp, and the same bid unless another bid shares both.             *)
C6_WinnerUpToFullTies ==
    out.op = "getWinningBid" =>
        LET l == out.input.bids
            w == out.result
        IN  /\ w = NoBid <=> Len(l) = 0
            /\ Len(l) > 0 =>
                /\ TopBid(l, w)
                /\ \A p \in Orders(l) :
                       LET v == getWinningBid([out.input EXCEPT !.bids = p])
                       IN  /\ TopBid(l, v)
                           /\ v.bidAmountCents = w.bidAmountCents
                           /\ v.timestamp = w.timestamp
                           /\ (\A c \in BidsOf(l) :
                                   (c.bidAmountCents = w.bidAmountCents
                                    /\ c.timestamp = w.timestamp) => c = w)
                                  => v = w

C6_Witness ==
    /\ out.op = "getWinningBid"
    /\ Len(out.input.bids) = 2
    /\ out.input.bids[1].bidAmountCents = out.input.bids[2].bidAmountCents
    /\ out.input.bids[1].timestamp > out.input.bids[2].timestamp
    /\ out.result = out.input.bids[2]

(* C7. An auction that went open -> closed through close is never open     *)
(* again and never accepts another bid.                                    *)
C7_NeverReopened ==
    closedByClose =>
        /\ auction.status # "open"
        /\ ~(out.op = "addBid" /\ ~out.result.threw)

(* C8. close fails with "already closed" and no winning bid whenever the   *)
(* auction's status is closed, so a close of the persisted closed state    *)
(* fails and changes nothing.                                              *)
C8_CloseOnClosedFails ==
    (out.op = "close" /\ out.input.status = "closed") =>
        /\ ~out.result.success
        /\ out.result.error = "Auction is already closed"
        /\ out.result.winningBid = NoBid
        /\ auction = out.input

C8_Witness ==
    /\ out.op = "close"
    /\ closedByClose
    /\ out.input.status = "closed"
    /\ Len(out.input.bids) >= 1
    /\ ~out.result.success

(* C9. close on an open auction succeeds with the winning bid as            *)
(* getWinningBid computes it (null without bids), finalStatus closed and   *)
(* totalBids the number of bids; with zero bids: winner null, totalBids 0. *)
C9_CloseOpenReturnsWinner ==
    (out.op = "close" /\ out.input.status = "open") =>
        LET l == out.input.bids
        IN  /\ out.result.success
            /\ out.result.error = ""
            /\ out.result.winningBid = getWinningBid(out.input)
            /\ Len(l) > 0 => TopBid(l, out.result.winningBid)
            /\ Len(l) = 0 => out.result.winningBid = NoBid /\ out.result.totalBids = 0
            /\ out.result.finalStatus = "closed"
            /\ out.result.totalBids = Len(l)

C9_Witness ==
    /\ out.op = "close"
    /\ out.input.status = "open"
    /\ Len(out.input.bids) = 0
    /\ out.input.totalBids = 1
    /\ out.result.success
    /\ out.result.winningBid = NoBid
    /\ out.result.totalBids = 0

(* C10. Without serialization a lost update is reachable: when two addBid  *)
(* calls on the same snapshot both succeed and both results are saved, the *)
(* state saved last holds the snapshot's bids and its own bid only, not    *)
(* the other call's bid, and counts one bid for the two accepted.          *)
C10_LastWriteLosesOtherBid ==
    \A c, d \in Callers :
        ( /\ c # d
          /\ calls[c].pc = "stored"
          /\ calls[d].pc = "stored"
          /\ calls[c].snapshot = calls[d].snapshot
          /\ calls[c].storedAt < calls[d].storedAt ) =>
            /\ auction.bids = Append(calls[d].snapshot.bids, calls[d].bid)
            /\ calls[c].bid \notin BidsOf(auction.bids)
            /\ auction.totalBids = Len(calls[d].snapshot.bids) + 1
            /\ auction.currentHighestBidCents = calls[d].bid.bidAmountCents

C10_Witness ==
    \E c, d \in Callers :
        /\ c # d
        /\ calls[c].pc = "stored"
        /\ calls[d].pc = "stored"
        /\ calls[c].snapshot = calls[d].snapshot
        /\ calls[c].storedAt < calls[d].storedAt
        /\ ~calls[c].result.threw
        /\ ~calls[d].result.threw
        /\ calls[c].bid.bidAmountCents > calls[d].bid.bidAmountCents
        /\ calls[c].bid \notin BidsOf(auction.bids)

(* C11. With bid submissions serialized, every accepted bid is at least    *)
(* the minimum and at least the previously highest accepted amount plus    *)
(* the increment, so accepted amounts strictly increase; and no accepted   *)
(* bid is lost: every step keeps the bids held so far, in order.           *)
C11_AcceptedBidsStepUp ==
    /\ [](\A i \in 1 .. Len(auction.bids) :
              /\ auction.bids[i].bidAmountCents >= auction.minimumBidCents
              /\ i > 1 =>
                  /\ auction.bids[i].bidAmountCents >=
                         HighestAmount(SubSeq(auction.bids, 1, i - 1))
                             + auction.bidIncrementCents
                  /\ auction.bids[i].bidAmountCents > auction.bids[i - 1].bidAmountCents)
    /\ [][IsPrefix(auction.bids, auction'.bids)]_vars

C11_Witness ==
    /\ Len(auction.bids) >= 2
    /\ auction.bids[2].bidAmountCents > auction.bids[1].bidAmountCents + auction.bidIncrementCents
    /\ out.op = "addBid"
    /\ ~out.result.threw

(* C12. isAuctionActive is true iff the status is open and startTime <= now *)
(* <= endTime, both boundary instants included; for status closed it is    *)
(* false at every instant.                                                 *)
C12_ActiveIffOpenInWindow ==
    out.op = "isAuctionActive" =>
        /\ out.result <=> ( /\ out.input.status = "open"
                            /\ out.input.startTime <= out.at
                            /\ out.at <= out.input.endTime )
        /\ (out.input.status = "open"
            /\ (out.at = out.input.startTime \/ out.at = out.input.endTime)) => out.result
        /\ out.input.status = "closed" => ~out.result

C12_Witness ==
    /\ out.op = "isAuctionActive"
    /\ out.input.status = "open"
    /\ out.at = out.input.endTime
    /\ out.result

C14_NextMinimumBid ==
    out.op = "getNextMinimumBid" =>
        /\ out.input.currentHighestBidCents = 0 => out.result = out.input.minimumBidCents
        /\ out.input.currentHighestBidCents # 0 =>
               out.result = out.input.currentHighestBidCents + out.input.bidIncrementCents
        /\ out.input.currentHighestBidCents > 0 =>
               out.result >= out.input.currentHighestBidCents + out.input.bidIncrementCents

C14_Witness ==
    /\ out.op = "getNextMinimumBid"
    /\ out.input.currentHighestBidCents > 0
    /\ out.input.minimumBidCents > 0
    /\ out.result = out.input.currentHighestBidCents + out.input.bidIncrementCents
    /\ out.result # out.input.minimumBidCents

(* C15. For every non-negative integer gross, calculateSettlement(gross)   *)
(* has grossAmount = gross, commission = calculateCommission(gross),       *)
(* laborFee = calculateLaborFee() = 2500 and netToSupplier = gross -       *)
(* commission - laborFee, which is subtractMoney(gross, commission,        *)
(* laborFee).                                                              *)
C15_SettlementIdentity ==
    out.op = "calculateSettlement" =>
        /\ out.result.grossAmount = out.gross
        /\ out.result.commissionCents = out.commission
        /\ out.result.laborFeeCents = out.laborFee
        /\ out.laborFee = 2500
        /\ out.result.netToSupplierCents =
               out.gross - out.result.commissionCents - out.result.laborFeeCents
        /\ out.result.netToSupplierCents = out.gross - out.commission - out.laborFee
        /\ out.result.netToSupplierCents = out.net

C15_Witness ==
    /\ out.op = "calculateSettlement"
    /\ out.gross = 10000
    /\ out.result.commissionCents = 600
    /\ out.result.netToSupplierCents = 6900

(* C16 as claimed. For every non-negative integer gross, commission,       *)
(* laborFee and netToSupplier of calculateSettlement(gross) are all        *)
(* non-negative integers.                                                  *)
C16_SettlementComponentsNonNegative ==
    out.op = "calculateSettlement" =>
        /\ out.result.commissionCents >= 0
        /\ out.result.laborFeeCents >= 0
        /\ out.result.netToSupplierCents >= 0

(* C17. For every non-negative integer gross, calculateCommission(gross)   *)
(* is floor((6 * gross + 50) / 100): 0 -> 0, 1000 -> 60, 1001 -> 60,       *)
(* 10000 -> 600, 50000 -> 3000, 1000000 -> 60000.                          *)
C17_CommissionRoundsSixPercent ==
    out.op = "calculateCommission" =>
        /\ out.result = (6 * out.gross + 50) \div 100
        /\ out.gross = 0 => out.result = 0
        /\ out.gross = 1000 => out.result = 60
        /\ out.gross = 1001 => out.result = 60
        /\ out.gross = 10000 => out.result = 600
        /\ out.gross = 50000 => out.result = 3000
        /\ out.gross = 1000000 => out.result = 60000

C17_Witness ==
    /\ out.op = "calculateCommission"
    /\ out.gross = 25
    /\ out.result = 2

C19_FormatTimeRemaining ==
    out.op = "formatTimeRemaining" =>
        LET d == out.milliseconds
            r == out.result
        IN  /\ r = <<"E", "N", "D", "E", "D">> <=> d <= 0
            /\ d > 0 =>
                 \E h \in 0 .. (MaxHours + 1), m \in 0 .. 59, sec \in 0 .. 59 :
                     /\ h * 3600 + m * 60 + sec = d \div 1000
                     /\ h > 0 => r = Decimal(h) \o <<"h", " ">> \o Decimal(m)
                                         \o <<"m", " ">> \o Decimal(sec) \o <<"s">>
                     /\ (h = 0 /\ m > 0) =>
                            r = Decimal(m) \o <<"m", " ">> \o Decimal(sec) \o <<"s">>
                     /\ (h = 0 /\ m = 0) => r = Decimal(sec) \o <<"s">>

C19_Witness ==
    /\ out.op = "formatTimeRemaining"
    /\ out.milliseconds = 3665000
    /\ out.result = <<"1", "h", " ", "1", "m", " ", "5", "s">>

(* C20. For every amount x = k / 100 with integer k >= 0, pesosTocentavos  *)
(* (x) = k and centavosToPesos(pesosTocentavos(x)) = x; and                *)
(* pesosTocentavos(centavosToPesos(k)) = k.                                *)
C20_ConversionRoundTrips ==
    out.op = "convert" =>
        /\ out.toCentavos = out.centavos
        /\ out.back = out.pesos
        /\ out.there = out.centavos

C20_Witness ==
    /\ out.op = "convert"
    /\ out.centavos = 29
    /\ out.toCentavos = 29
    /\ out.back = out.pesos

C22_OneRequestIdPerRequest ==
    \A r \in Sessions :
        calls[r].pc = "done" =>
            \A i \in 1 .. Len(out) :
                out[i].request = r => out[i].requestId = calls[r].header

(* C23. auditLogger.logEvent always completes normally for its caller,     *)
(* also when writing the audit event throws and writing the fallback       *)
(* 'failed' audit event throws too; so a startAuction whose transaction    *)
(* has committed returns success when audit logging fails.                 *)
C23_AuditFailureDoesNotBreak ==
    /\ calls.audited.ran => ~calls.audited.threw
    /\ (calls.pc = "done" /\ calls.committed) => out.result.success
    /\ (calls.pc = "done" /\ calls.role # "BROKER") =>
           out.result = Failed("Unauthorized: Only brokers can start auctions")

C23_Witness ==
    /\ calls.pc = "done"
    /\ calls.committed
    /\ calls.createThrows
    /\ calls.fallbackThrows
    /\ calls.audited.ran
    /\ auction.auditEvents = <<>>
    /\ out.result.success

(* C24. In every AuctionState reached from an empty auction by successful  *)
(* addBid calls the bid amounts strictly increase in insertion order, so   *)
(* no two bids tie; the winning bid, also the one close reports, is the    *)
(* bid added last, and its amount is currentHighestBid.                    *)
C24_LastBidWins ==
    /\ \A i, j \in 1 .. Len(auction.bids) :
           i < j => auction.bids[i].bidAmountCents < auction.bids[j].bidAmountCents
    /\ Len(auction.bids) > 0 =>
           /\ getWinningBid(auction) = auction.bids[Len(auction.bids)]
           /\ getWinningBid(auction).bidAmountCents = auction.currentHighestBidCents
    /\ (out.op = "close" /\ out.result.success /\ Len(out.input.bids) > 0) =>
           out.result.winningBid = out.input.bids[Len(out.input.bids)]

C24_Witness ==
    /\ out.op = "close"
    /\ out.result.success
    /\ Len(auction.bids) >= 2
    /\ auction.bids[1].timestamp < auction.bids[2].timestamp
    /\ out.result.winningBid = auction.bids[Len(auction.bids)]

(* C25 as claimed. For every active auction with integer minimumBid >= 0,  *)
(* bidIncrement > 0 and currentHighestBid >= 0, validateBid accepts        *)
(* getNextMinimumBid(auction) and rejects every smaller amount, also when  *)
(* there are no bids yet (currentHighestBid = 0).                          *)
C25_NextMinimumBidIsLeastAdmissible ==
    (out.op = "validateBid" /\ isAuctionActive(out.input, out.at)) =>
        /\ out.amount = getNextMinimumBid(out.input) => out.result.success
        /\ out.amount < getNextMinimumBid(out.input) => ~out.result.success

(* C26. On an auction with bidIncrement > 0 and currentHighestBid >= 0     *)
(* validateBid rejects every amount <= 0 as not active, below the minimum  *)
(* or below the required increment, never as an invalid amount; 'Invalid   *)
(* bid amount' is returned only for a non-integer amount that passes the   *)
(* first three checks.                                                     *)
C26_InvalidAmountOnlyForFractions ==
    (/\ out.op = "validateBid"
     /\ out.input.bidIncrementCents > 0
     /\ out.input.currentHighestBidCents >= 0) =>
        /\ out.amount <= 0 =>
               /\ ~out.result.success
               /\ out.result.error \in
                      {"Auction is not currently active", "Bid must be at least $",
                       "Bid must be at least $ (current high + increment)"}
        /\ out.result.error = "Invalid bid amount" =>
               /\ out.amount % Denom # 0
               /\ out.amount > 0
               /\ InWindow(out.input, out.at)
               /\ out.amount >= out.input.minimumBidCents
               /\ out.amount >= out.input.currentHighestBidCents + out.input.bidIncrementCents

C26_Witness ==
    /\ out.op = "validateBid"
    /\ out.result.error = "Invalid bid amount"
    /\ out.amount % Denom # 0
    /\ out.input.minimumBidCents = 0

(* C27 as claimed. Whenever formatTimeRemaining(getTimeRemaining(auction)) *)
(* is 'ENDED', hasAuctionEnded(auction) is true and isAuctionActive        *)
(* (auction) is false, the instant now = endTime included.                 *)
C27_EndedDisplayMeansEnded ==
    (out.op = "countdown" /\ out.result = <<"E", "N", "D", "E", "D">>) =>
        /\ out.hasEnded
        /\ ~out.isActive

(* C28 as claimed. For an ACTIVE auction within its time window and every  *)
(* integer amount, placeBid accepts the amount iff validateBid accepts it  *)
(* on the corresponding AuctionState, the first bid of an auction          *)
(* included.                                                               *)
C28_PlaceBidAdmitsWhatValidateBidAdmits ==
    (/\ out.op = "placeBid"
     /\ out.row.status = "ACTIVE"
     /\ out.row.startTime <= out.at
     /\ out.at <= out.row.endTime) =>
        (out.error = "" <=> out.engine.success)

(* C29 as claimed. For any interleaving of placeBid transactions on one    *)
(* ACTIVE auction, once all have finished and a bid was accepted, exactly  *)
(* one bid has isWinning = true, it is the accepted bid of highest amount, *)
(* winningBidId references it and currentPrice is its amount; currentPrice *)
(* never decreases, and closeAuction declares that same bid the winner.    *)
C29_OneWinningBidTheHighest ==
    /\ []((\A c \in Bidders : calls[c].pc = "done") /\ auction.bids # {} =>
              \E w \in auction.bids :
                  /\ \A b \in auction.bids : b.isWinning <=> b = w
                  /\ \A b \in auction.bids : b.amount <= w.amount
                  /\ auction.row.winningBidId = w.id
                  /\ auction.row.currentPrice = w.amount)
    /\ [](out.op = "closeAuction" => out.marked = {out.winningBid})
    /\ [][auction'.row.currentPrice >= auction.row.currentPrice]_vars

(* C30 as claimed. For any interleaving of approveLotSale and              *)
(* rejectLotSale calls on one lot pending approval, at most one takes      *)
(* effect, and exactly one once all have finished; never two SALE          *)
(* transactions or settlements exist for the winning bid; never a SALE     *)
(* transaction exists while the lot is AVAILABLE; after an approval the    *)
(* lot is SOLD, and no call begun after it succeeds.                       *)
C30_SaleDecidedOnce ==
    LET decisions == {c \in Sessions : calls[c].op \in {"approveLotSale", "rejectLotSale"}}
        effective == {c \in decisions : calls[c].pc = "done" /\ calls[c].result.success}
    IN  /\ Cardinality(effective) <= 1
        /\ (decisions # {} /\ \A c \in Sessions : calls[c].pc = "done") =>
               Cardinality(effective) = 1
        /\ Cardinality(auction.transactions) <= 1
        /\ Cardinality(auction.settlements) <= 1
        /\ ~(auction.transactions # {} /\ auction.lot.status = "AVAILABLE")
        /\ Approved => auction.lot.status = "SOLD"
        /\ \A c \in Sessions :
               calls[c].pc = "done" /\ calls[c].late => ~calls[c].result.success

====
